---- MODULE Spec2Model ----
(***************************************************************************)
(* Model of the agririsk backend: the three point-sample aggregations of   *)
(* backend/app/data_utils.py and the /risk handler of backend/app/main.py. *)
(*                                                                         *)
(* Numbers.  The program computes sample values, aggregates, scores and    *)
(* premiums with Python floats (IEEE 754 binary64).  The model computes    *)
(* them with the same binary64 arithmetic: a float is <<s, m, e>>, standing *)
(* for s * m * 2^e with a 53-bit m, every operation rounds its exact result *)
(* to the nearest float (ties to even), and round(x, ndigits) rounds the   *)
(* exact binary value of x as CPython does.  Integers of TLC have 32 bits, *)
(* so the 53-bit and longer numbers are sequences of 15-bit limbs.         *)
(* Coordinates of polygon vertices and of samples are integers (degrees),  *)
(* which floats hold exactly: containment is decided on the integers, the  *)
(* centroid and the distances are floats.                                  *)
(*                                                                         *)
(* Builds.  Two library choices change the last bits of intermediate       *)
(* floats: sum() of CPython (plain before 3.12, compensated from 3.12) and *)
(* the Mercator formula of PROJ (log-tan up to 7.1, asinh from 7.2).  A    *)
(* request runs on one build, drawn in Init.                               *)
(***************************************************************************)
EXTENDS Integers, Sequences, FiniteSets

\* ------------------------------------------------------------- bounds

\* Largest number of rows of a sample table (a CSV file) read by a call that
\* is checked on its own.
MaxSamples == 3

\* Largest number of rows of each of the three tables read by one request.
MaxRows == 1

Abs(x) == IF x < 0 THEN -x ELSE x

\* The element of a one-element set.  Only({e(v) : v \in {x}}) is e(x) with
\* x evaluated once, however often e uses v: the float operations take
\* their operands this way, as calls by value.
Only(S) == CHOOSE v \in S : TRUE

\* ------------------------------------------------------------- floats

None == <<>>

\* Natural numbers of any size: sequences of 15-bit limbs, lowest limb
\* first, without leading zero limbs; 0 is the empty sequence.
LimbBits == 15
Base == 2^LimbBits

RECURSIVE BTrim(_)
BTrim(a) ==
    IF a = <<>> THEN a
    ELSE IF a[Len(a)] = 0 THEN BTrim(SubSeq(a, 1, Len(a) - 1)) ELSE a

RECURSIVE BFromInt(_)
BFromInt(n) == IF n = 0 THEN <<>> ELSE <<n % Base>> \o BFromInt(n \div Base)

Limb(a, i) == IF i <= Len(a) THEN a[i] ELSE 0
Rest(a) == IF a = <<>> THEN a ELSE Tail(a)

RECURSIVE BAddC(_, _, _)
BAddC(a, b, c) ==
    IF a = <<>> /\ b = <<>> THEN BFromInt(c)
    ELSE LET x == Limb(a, 1) + Limb(b, 1) + c
         IN  <<x % Base>> \o BAddC(Rest(a), Rest(b), x \div Base)

BAdd(a, b) == BAddC(a, b, 0)

RECURSIVE BSubC(_, _, _)
BSubC(a, b, c) ==
    IF a = <<>> THEN a
    ELSE LET x == a[1] - Limb(b, 1) - c
         IN  <<(x + Base) % Base>> \o BSubC(Tail(a), Rest(b), IF x < 0 THEN 1 ELSE 0)

\* a - b for a >= b
BSub(a, b) == BTrim(BSubC(a, b, 0))

RECURSIVE BCmpFrom(_, _, _)
BCmpFrom(a, b, i) ==
    IF i = 0 THEN 0
    ELSE IF a[i] < b[i] THEN -1
    ELSE IF a[i] > b[i] THEN 1
    ELSE BCmpFrom(a, b, i - 1)

BCmp(a, b) ==
    IF Len(a) < Len(b) THEN -1
    ELSE IF Len(a) > Len(b) THEN 1
    ELSE BCmpFrom(a, b, Len(a))

RECURSIVE BMulSmallC(_, _, _)
BMulSmallC(a, k, c) ==
    IF a = <<>> THEN BFromInt(c)
    ELSE LET x == a[1] * k + c
         IN  <<x % Base>> \o BMulSmallC(Tail(a), k, x \div Base)

\* a * k for 0 <= k < Base
BMulSmall(a, k) == BTrim(BMulSmallC(a, k, 0))

RECURSIVE BMul(_, _)
BMul(a, b) ==
    IF a = <<>> THEN a
    ELSE BTrim(BAdd(BMulSmall(b, a[1]), <<0>> \o BMul(Tail(a), b)))

RECURSIVE BDivSmallR(_, _)
BDivSmallR(a, d) ==
    IF a = <<>> THEN <<a, 0>>
    ELSE LET hi == BDivSmallR(Tail(a), d)
             x == hi[2] * Base + a[1]
         IN  <<<<x \div d>> \o hi[1], x % d>>

\* <<a div d, a mod d>> for 0 < d <= Base
BDivSmall(a, d) == LET qr == BDivSmallR(a, d) IN <<BTrim(qr[1]), qr[2]>>

BShl(a, k) ==
    IF a = <<>> THEN a
    ELSE [i \in 1..(k \div LimbBits) |-> 0] \o BMulSmall(a, 2^(k % LimbBits))

BShr(a, k) ==
    IF k \div LimbBits >= Len(a) THEN <<>>
    ELSE BDivSmall(SubSeq(a, (k \div LimbBits) + 1, Len(a)), 2^(k % LimbBits))[1]

\* bit i of a (bit 0 is the lowest)
BBit(a, i) == (Limb(a, (i \div LimbBits) + 1) \div 2^(i % LimbBits)) % 2

\* the k lowest bits of a are all 0
BLowZero(a, k) ==
    /\ \A j \in 1..(k \div LimbBits) : Limb(a, j) = 0
    /\ Limb(a, (k \div LimbBits) + 1) % 2^(k % LimbBits) = 0

RECURSIVE IntBits(_)
IntBits(n) == IF n = 0 THEN 0 ELSE 1 + IntBits(n \div 2)

BBits(a) == IF a = <<>> THEN 0 ELSE LimbBits * (Len(a) - 1) + IntBits(a[Len(a)])

\* the nearest integer to m / 2^k, a tie going to the even one
BRoundShr(m, k, sticky) ==
    IF k = 0 THEN m
    ELSE LET q == BShr(m, k)
             up == /\ BBit(m, k - 1) = 1
                   /\ \/ sticky
                      \/ ~BLowZero(m, k - 1)
                      \/ BBit(q, 0) = 1
         IN  IF up THEN BAdd(q, <<1>>) ELSE q

\* A Python float (IEEE 754 binary64) is <<s, m, e>>, standing for
\* s * m * 2^e with s in {-1, 1} and m of exactly 53 bits; zero is
\* <<0, <<>>, 0>> (the sign of a zero is not kept: -0.0 == 0.0, and both
\* are falsy).  The values of the program stay far from the subnormal and
\* the overflow range.
Precision == 53

Zero == <<0, <<>>, 0>>

\* s * (m + t) * 2^e rounded to the nearest binary64, ties to even, where
\* 0 <= t < 1 and t > 0 exactly when sticky
FRound(s, mant, e, sticky) ==
    Only({IF m = <<>> THEN Zero
          ELSE IF BBits(m) <= Precision
          THEN <<s, BShl(m, Precision - BBits(m)), e - (Precision - BBits(m))>>
          ELSE Only({IF BBits(q) > Precision
                     THEN <<s, BShr(q, 1), e + (BBits(m) - Precision) + 1>>
                     ELSE <<s, q, e + (BBits(m) - Precision)>>
                     : q \in {BRoundShr(m, BBits(m) - Precision, sticky)}})
          : m \in {mant}})

\* the binary64 nearest to s * p / d, for d in 1..Base
FromRatio(s, p, d) ==
    Only({FRound(s, qr[1], -(5 * LimbBits), qr[2] # 0)
          : qr \in {BDivSmall(BShl(p, 5 * LimbBits), d)}})

Sign(n) == IF n < 0 THEN -1 ELSE IF n > 0 THEN 1 ELSE 0

\* The float denoted by a decimal literal n/d (in the source or in a CSV
\* file), and the float of an int.
F(n, d) == FromRatio(Sign(n), BFromInt(Abs(n)), d)
Float(n) == F(n, 1)

FNeg(a) == <<-a[1], a[2], a[3]>>

FMul(x, y) ==
    Only({IF a[1] = 0 \/ b[1] = 0 THEN Zero
          ELSE FRound(a[1] * b[1], BMul(a[2], b[2]), a[3] + b[3], FALSE)
          : a \in {x}, b \in {y}})

\* a + b, from the two mantissas x and y aligned on the lower exponent e
Aligned(a, b, e) ==
    Only({IF a[1] = b[1] THEN FRound(a[1], BAdd(x, y), e, FALSE)
          ELSE IF BCmp(x, y) = 0 THEN Zero
          ELSE IF BCmp(x, y) > 0 THEN FRound(a[1], BSub(x, y), e, FALSE)
          ELSE FRound(b[1], BSub(y, x), e, FALSE)
          : x \in {BShl(a[2], a[3] - e)}, y \in {BShl(b[2], b[3] - e)}})

FAdd(x, y) ==
    Only({IF a[1] = 0 THEN b
          ELSE IF b[1] = 0 THEN a
          ELSE Aligned(a, b, IF a[3] < b[3] THEN a[3] ELSE b[3])
          : a \in {x}, b \in {y}})

FSub(x, y) == Only({FAdd(x, FNeg(b)) : b \in {y}})

\* a / d for an int d in 1..Base
FDiv(x, d) ==
    Only({IF a[1] = 0 THEN Zero
          ELSE Only({FRound(a[1], qr[1], a[3] - 2 * LimbBits, qr[2] # 0)
                     : qr \in {BDivSmall(BShl(a[2], 2 * LimbBits), d)}})
          : a \in {x}})

\* a < b
FLt(x, y) ==
    Only({IF a[1] # b[1] THEN a[1] < b[1]
          ELSE IF a[1] = 0 THEN FALSE
          ELSE IF a[1] = 1
          THEN a[3] < b[3] \/ (a[3] = b[3] /\ BCmp(a[2], b[2]) < 0)
          ELSE a[3] > b[3] \/ (a[3] = b[3] /\ BCmp(a[2], b[2]) > 0)
          : a \in {x}, b \in {y}})

FLe(a, b) == ~FLt(b, a)

\* Python's max(a, b) and min(a, b): the first argument wins a tie.
max(x, y) == Only({IF FLt(a, b) THEN b ELSE a : a \in {x}, b \in {y}})
min(x, y) == Only({IF FLt(b, a) THEN b ELSE a : a \in {x}, b \in {y}})

RECURSIVE Pow10(_)
Pow10(k) == IF k = 0 THEN 1 ELSE 10 * Pow10(k - 1)

\* |x| * 10^ndigits rounded to the nearest integer, ties to even
Scaled(x, ndigits) ==
    Only({IF x[3] >= 0 THEN BShl(m, x[3]) ELSE BRoundShr(m, -x[3], FALSE)
          : m \in {BMulSmall(x[2], Pow10(ndigits))}})

\* Python's round(x, ndigits) on a float: the exact binary value of x is
\* rounded to ndigits decimals, half way going to the even neighbour, and
\* the float nearest to that decimal is returned.  (A decimal that looks
\* half way, such as 0.2875, is decided by the float that stands for it.)
round(number, ndigits) ==
    Only({IF x[1] = 0 \/ x[3] >= 0 THEN x
          ELSE FromRatio(x[1], Scaled(x, ndigits), Pow10(ndigits))
          : x \in {number}})


FAbs(a) == <<Abs(a[1]), a[2], a[3]>>

\* the value of a number of at most two limbs
BToInt(a) == Limb(a, 1) + Base * Limb(a, 2)

RECURSIVE ISqrt(_, _, _)
\* the largest r in lo..hi with r * r <= n (for lo * lo <= n, hi < 2^15)
ISqrt(n, lo, hi) ==
    IF lo = hi THEN lo
    ELSE LET mid == (lo + hi + 1) \div 2
         IN  IF mid * mid <= n THEN ISqrt(n, mid, hi) ELSE ISqrt(n, lo, mid - 1)

\* One Newton step towards 1/sqrt(a): y * (3 - a * y * y) / 2.
RSqrtStep(a, y0) ==
    Only({FDiv(FMul(y, FSub(Float(3), FMul(a, FMul(y, y)))), 2) : y \in {y0}})

RECURSIVE NearestRoot(_, _)
\* The integer nearest to sqrt(n4 / 4), reached from a close estimate s.
NearestRoot(n4, s) ==
    IF Only({BCmp(BMul(lo, lo), n4) > 0 : lo \in {BSub(BMulSmall(s, 2), <<1>>)}})
    THEN Only({NearestRoot(n4, t) : t \in {BSub(s, <<1>>)}})
    ELSE IF Only({BCmp(BMul(hi, hi), n4) < 0 : hi \in {BAdd(BMulSmall(s, 2), <<1>>)}})
    THEN Only({NearestRoot(n4, t) : t \in {BAdd(s, <<1>>)}})
    ELSE s

\* 2^shift times the float g, as an integer (truncated)
Scale(g, shift) ==
    IF g[3] + shift >= 0 THEN BShl(g[2], g[3] + shift) ELSE BShr(g[2], -(g[3] + shift))

\* A first estimate of 1/sqrt(m * 4^h) for an m of 53 or 54 bits, from the
\* integer root of the leading bits of m.
RSqrtEstimate(m, h) ==
    FDiv(<<1, BShl(<<1>>, Precision - 1), -(Precision - 1) - 13 - h>>,
         ISqrt(BToInt(BShr(m, 26)), 1, Base - 1))

\* sqrt(m * 4^h) rounded to a float: the estimate g of it is moved to the
\* nearest root of m * 2^52.
RoundedRoot(m, h, g) ==
    Only({FRound(1, NearestRoot(n4, s0), h - 26, FALSE)
          : n4 \in {BShl(m, Precision + 1)}, s0 \in {Scale(g, 26 - h)}})

\* sqrt(m * 4^h) for an m of 53 or 54 bits, correctly rounded: the estimate
\* is a * y, with a = m * 4^h and y near 1/sqrt(a) after two Newton steps.
SqrtOf(m, h) ==
    Only({RoundedRoot(m, h, FMul(a, RSqrtStep(a, RSqrtStep(a, y0))))
          : a \in {FRound(1, m, 2 * h, FALSE)}, y0 \in {RSqrtEstimate(m, h)}})

\* sqrt(a) for a float a >= 0, correctly rounded as IEEE 754 requires.
FSqrt(a) ==
    IF a[1] = 0 THEN Zero
    ELSE IF a[3] % 2 = 0 THEN SqrtOf(a[2], a[3] \div 2)
    ELSE Only({SqrtOf(m, (a[3] - 1) \div 2) : m \in {BMulSmall(a[2], 2)}})

\* Python's `x or default` on a number: the default replaces a falsy x,
\* and a float is falsy exactly when it is 0.
Or(x, default) == Only({IF v = None \/ v = Zero THEN default ELSE v : v \in {x}})

RECURSIVE FSum(_, _)
\* acc + vals[1] + ... + vals[n], every addition rounded, from left to
\* right: Series.sum() on fewer than 8 values, and the float loop of sum()
\* before CPython 3.12.
FSum(acc, vals) ==
    IF vals = <<>> THEN acc ELSE FSum(FAdd(acc, vals[1]), Tail(vals))

RECURSIVE sum_compensated(_, _, _, _, _)
\* The float loop of sum() from CPython 3.12 (Neumaier's summation): f is
\* the running sum and c the running compensation, added at the end when
\* it is not 0.  An item that is a Python int (index in ints) is added to
\* f without compensation.
sum_compensated(f, c, vals, ints, i) ==
    IF i > Len(vals) THEN (IF c # Zero THEN FAdd(f, c) ELSE f)
    ELSE IF i \in ints
    THEN Only({sum_compensated(t, c, vals, ints, i + 1) : t \in {FAdd(f, vals[i])}})
    ELSE Only({Only({sum_compensated(t, c1, vals, ints, i + 1)
                     : c1 \in {IF FLe(FAbs(x), FAbs(f))
                               THEN FAdd(c, FAdd(FSub(f, t), x))
                               ELSE FAdd(c, FAdd(FSub(x, t), f))}})
               : x \in {vals[i]}, t \in {FAdd(f, vals[i])}})

\* sum(vals) of Python: the leading ints are added as ints, the first float
\* is added to them, and the float loop of the interpreter adds the rest.
sum(vals, ints, impl) ==
    LET floats == {i \in 1..Len(vals) : i \notin ints}
        first == IF floats = {} THEN Len(vals) + 1
                 ELSE CHOOSE i \in floats : \A j \in floats : i <= j
        head == FSum(Zero, SubSeq(vals, 1, first - 1))
    IN  IF first > Len(vals) THEN head
        ELSE IF impl = "compensated"
             THEN Only({sum_compensated(f, Zero, vals, ints, first + 1)
                        : f \in {FAdd(head, vals[first])}})
             ELSE FSum(FAdd(head, vals[first]), SubSeq(vals, first + 1, Len(vals)))

\* ----------------------------------------------------------- geometry
\* A GeoJSON polygon is modelled by its exterior ring, a sequence of
\* <<lon, lat>> vertices.  A sample table (DataFrame) is a sequence of rows
\* [lon, lat, value] in file order.

\* shape(geojson_polygon['geometry']): shapely builds the shell as a
\* LinearRing, which closes a ring whose last vertex differs from the first.
shape(ring) ==
    IF ring[1] = ring[Len(ring)] THEN ring ELSE Append(ring, ring[1])

Point(row) == <<row.lon, row.lat>>

\* Twice the signed area of the triangle (a, b, p).
Cross(a, b, p) == (b[1] - a[1]) * (p[2] - a[2]) - (b[2] - a[2]) * (p[1] - a[1])

Between(u, v, w) == (u <= w /\ w <= v) \/ (v <= w /\ w <= u)

OnSegment(a, b, p) ==
    /\ Cross(a, b, p) = 0
    /\ Between(a[1], b[1], p[1])
    /\ Between(a[2], b[2], p[2])

\* p lies on the ring itself (on an edge or at a vertex).
OnBoundary(poly, p) ==
    \E i \in 1..(Len(poly) - 1) : OnSegment(poly[i], poly[i + 1], p)

\* The edge (a, b) is crossed by the horizontal ray from p towards +lon.
Crosses(a, b, p) ==
    /\ (a[2] > p[2]) # (b[2] > p[2])
    /\ IF b[2] > a[2]
       THEN (p[1] - a[1]) * (b[2] - a[2]) < (p[2] - a[2]) * (b[1] - a[1])
       ELSE (p[1] - a[1]) * (b[2] - a[2]) > (p[2] - a[2]) * (b[1] - a[1])

\* Even-odd rule: p is in the interior or on the boundary side counted odd.
OddCrossings(poly, p) ==
    Cardinality({i \in 1..(Len(poly) - 1) : Crosses(poly[i], poly[i + 1], p)}) % 2 = 1

\* A variant of the predicate below that also accepts boundary points
\* (shapely's covers).
covers(poly, p) == OnBoundary(poly, p) \/ OddCrossings(poly, p)

\* poly.contains(Point): shapely's contains holds for points of the
\* interior only; a point on the boundary is not contained.
contains(poly, p) == ~OnBoundary(poly, p) /\ OddCrossings(poly, p)

RECURSIVE SumTo(_, _)
\* f[1] + ... + f[n] for an integer-valued f.
SumTo(f, n) == IF n = 0 THEN 0 ELSE SumTo(f, n - 1) + f[n]

\* cg3 / 3 / areasum2 of GEOS, for two integers (floats hold them exactly).
CentroidCoordinate(cg3, areasum2) ==
    LET q == FDiv(FDiv(Float(cg3), 3), Abs(areasum2))
    IN  IF areasum2 < 0 THEN FNeg(q) ELSE q

\* poly.centroid: GEOS adds up, over the triangles (v1, vi, vi+1) of the
\* shell, twice the signed area a2 and a2 times the sum of the three
\* vertices, and divides: the area-weighted centroid, as floats.
centroid(poly) ==
    LET n == Len(poly) - 1
        a2 == [i \in 1..n |-> Cross(poly[1], poly[i], poly[i + 1])]
        areasum2 == SumTo(a2, n)
    IN  <<CentroidCoordinate(
              SumTo([i \in 1..n |-> a2[i] * (poly[1][1] + poly[i][1] + poly[i + 1][1])], n),
              areasum2),
          CentroidCoordinate(
              SumTo([i \in 1..n |-> a2[i] * (poly[1][2] + poly[i][2] + poly[i + 1][2])], n),
              areasum2)>>

\* centroid.distance(Point): sqrt(dx * dx + dy * dy) in floats.
distance(c, p) ==
    Only({Only({FSqrt(d2) : d2 \in {FAdd(FMul(dx, dx), FMul(dy, dy))}})
          : dx \in {FSub(c[1], Float(p[1]))}, dy \in {FSub(c[2], Float(p[2]))}})

\* Series.idxmin(): the label of the first occurrence of the minimum.
idxmin(dist) ==
    CHOOSE i \in 1..Len(dist) :
        /\ \A j \in 1..Len(dist) : FLe(dist[i], dist[j])
        /\ \A j \in 1..(i - 1) : FLt(dist[i], dist[j])

\* Series.mean(): the sum of a non-empty series divided by its length.
mean(vals) == FDiv(FSum(Zero, vals), Len(vals))

\* ------------------------------------------------------------- inputs

\* Request polygons: a square, the same square with its ring left unclosed
\* (a malformed ring), and a concave L-shaped hexagon.
Square == <<<<0, 0>>, <<4, 0>>, <<4, 4>>, <<0, 4>>, <<0, 0>>>>
SquareUnclosed == <<<<0, 0>>, <<4, 0>>, <<4, 4>>, <<0, 4>>>>
LShape == <<<<0, 0>>, <<4, 0>>, <<4, 2>>, <<2, 2>>, <<2, 4>>, <<0, 4>>, <<0, 0>>>>
Polygons == {Square, SquareUnclosed, LShape}

\* req.coverage: Optional[float]; None when the caller supplies none.
Coverages == {None, Float(0), Float(1), Float(2)}

\* Sample coordinates: inside both polygons, on the boundary of both
\* (twice), and two that are outside the L-shape at the same distance from
\* its centroid (5/3, 5/3), the second of them on the square's boundary.
Pts == {<<1, 1>>, <<4, 2>>, <<0, 3>>, <<-1, 2>>, <<3, 4>>}

\* The value column of the three CSV files, as read_csv parses it.
NdviVals == {F(-1, 2), Float(0), F(2, 5)}
ElevationVals == {Float(-1000), Float(0), Float(250)}
WeatherVals == {Float(0), Float(3), Float(10)}

Rows(vals) == [lon : {p[1] : p \in Pts}, lat : {p[2] : p \in Pts}, value : vals]

\* pd.read_csv(path): every table of up to maxlen rows, the header-only
\* (empty) table included.
Tables(vals, maxlen) ==
    UNION {[1..n -> {r \in Rows(vals) : <<r.lon, r.lat>> \in Pts}] : n \in 0..maxlen}

\* The libraries the service runs on.
Builds == [sum : {"plain", "compensated"}, mercator : {"log_tan", "asinh"}]

\* ------------------------------------------------------- aggregation

\* A variant of the selection below that keeps every row of the table.
all_values(poly, df) == [i \in 1..Len(df) |-> df[i].value]

\* df[points][column]: the values of the rows whose point the polygon
\* contains, in file order.
RECURSIVE contained_values(_, _)
contained_values(poly, df) ==
    IF df = <<>> THEN <<>>
    ELSE LET rest == contained_values(poly, Tail(df))
         IN  IF contains(poly, Point(df[1])) THEN <<df[1].value>> \o rest ELSE rest

RECURSIVE distances(_, _)
\* df.apply(lambda row: centroid.distance(Point(row.lon, row.lat)), axis=1):
\* the distance of every row from the point c, in file order.
distances(c, df) ==
    IF df = <<>> THEN <<>>
    ELSE <<distance(c, Point(df[1]))>> \o distances(c, Tail(df))

\* A variant of the call below that answers an empty table with a neutral
\* value instead of raising.
stats_neutral(geojson_polygon, df) ==
    LET poly == shape(geojson_polygon)
        values == contained_values(poly, df)
    IN  IF values # <<>>
        THEN [path |-> "mean", value |-> mean(values)]
        ELSE IF df = <<>>
             THEN [path |-> "nearest", value |-> Zero]
             ELSE Only({Only({[path |-> "nearest", value |-> df[idxmin(dist)].value]
                              : dist \in {distances(c, df)}})
                        : c \in {centroid(poly)}})

\* One call of get_*_stats on the table df.  The outcome is a record:
\* path "mean" (contained samples averaged), "nearest" (fallback) or
\* "raise" (the call ends in an exception and returns nothing).
stats(geojson_polygon, df) ==
    LET poly == shape(geojson_polygon)
        values == contained_values(poly, df)
    IN  IF values # <<>>
        THEN [path |-> "mean", value |-> mean(values)]
        ELSE IF df = <<>>
             \* nothing to choose from: building or reducing the distance
             \* column of an empty table raises ValueError
             THEN [path |-> "raise", value |-> None]
             ELSE Only({Only({[path |-> "nearest", value |-> df[idxmin(dist)].value]
                              : dist \in {distances(c, df)}})
                        : c \in {centroid(poly)}})

get_ndvi_stats(geojson_polygon, df) == stats(geojson_polygon, df)
get_elevation_stats(geojson_polygon, df) == stats(geojson_polygon, df)
get_weather_stats(geojson_polygon, df) == stats(geojson_polygon, df)

\* ------------------------------------------------------ peril scoring

Perils == {"drought", "flood", "hail", "frost", "pestilence"}

\* The perils in the order the handler inserts them in its dictionaries.
PerilOrder == <<"drought", "flood", "hail", "frost", "pestilence">>

\* max(0, 1 - ((ndvi or 0.5) + (weather or 5)/20))
drought_score(n, w) ==
    max(Zero, FSub(Float(1), FAdd(Or(n, F(5, 10)), FDiv(Or(w, Float(5)), 20))))

\* max(0, 1 - ((elevation or 1000)/2000) + (weather or 5)/20)
flood_score(e, w) ==
    max(Zero, FAdd(FSub(Float(1), FDiv(Or(e, Float(1000)), 2000)),
                   FDiv(Or(w, Float(5)), 20)))

\* min(1, ((elevation or 1000)/2000) * 0.7 + 0.2)
hail_score(e) ==
    min(Float(1), FAdd(FMul(FDiv(Or(e, Float(1000)), 2000), F(7, 10)), F(2, 10)))

\* min(1, ((elevation or 1000)/2000) * 0.5 + (1 - (ndvi or 0.5)) * 0.5)
frost_score(e, n) ==
    min(Float(1), FAdd(FMul(FDiv(Or(e, Float(1000)), 2000), F(5, 10)),
                       FMul(FSub(Float(1), Or(n, F(5, 10))), F(5, 10))))

\* min(1, (ndvi or 0.5) * 0.8)
pestilence_score(n) == min(Float(1), FMul(Or(n, F(5, 10)), F(8, 10)))

\* The perils dictionary: each score rounded to 3 decimals.
score_perils(n, e, w) ==
    [k \in Perils |->
        CASE k = "drought" -> round(drought_score(n, w), 3)
          [] k = "flood" -> round(flood_score(e, w), 3)
          [] k = "hail" -> round(hail_score(e), 3)
          [] k = "frost" -> round(frost_score(e, n), 3)
          [] k = "pestilence" -> round(pestilence_score(n), 3)]

\* The positions in PerilOrder of the scores that are Python ints: max(0, x)
\* returns its literal 0 unless x > 0, min(1, x) its literal 1 unless x < 1,
\* and round() of an int is an int.
int_scores(n, e, w) ==
    {i \in 1..Len(PerilOrder) :
        CASE PerilOrder[i] = "drought" -> drought_score(n, w) = Zero
          [] PerilOrder[i] = "flood" -> flood_score(e, w) = Zero
          [] PerilOrder[i] = "hail" -> hail_score(e) = Float(1)
          [] PerilOrder[i] = "frost" -> frost_score(e, n) = Float(1)
          [] PerilOrder[i] = "pestilence" -> pestilence_score(n) = Float(1)}

\* sum(d.values()) of a dictionary over the five perils, in insertion
\* order; ints are the positions of its int values.
sum_values(d, ints, impl) ==
    sum([i \in 1..Len(PerilOrder) |-> d[PerilOrder[i]]], ints, impl)

\* risk_score: the mean of the five perils, clamped to [0, 1].
overall_risk(p, ints, impl) ==
    min(max(FDiv(sum_values(p, ints, impl), Len(PerilOrder)), Zero), Float(1))

\* --------------------------------------------------------------- area

\* pyproj's transform from EPSG:4326 to EPSG:3857 (spherical Mercator on
\* the radius a = 6378137 m), tabulated to float precision for the whole
\* degrees 0..4 of the request polygons: entry d + 1 is the coordinate of
\* d degrees, in metres.
\*   x = a * lon * pi/180:
\*     0, 111319.49079327357, 222638.98158654713, 333958.4723798207,
\*     445277.96317309426
EPSG3857_x ==
    <<Zero,
      <<1, <<3121, 13460, 13791, 217>>, -36>>,
      <<1, <<3121, 13460, 13791, 217>>, -35>>,
      <<1, <<2341, 18287, 2151, 163>>, -34>>,
      <<1, <<3121, 13460, 13791, 217>>, -34>>>>

\*   y = a * ln(tan(pi/4 + lat/2)), PROJ up to 7.1:
\*     -7.081154551613622e-10, 111325.14286638486, 222684.20850554455,
\*     334111.1714019597, 445640.1096560266
\*   y = a * asinh(tan(lat)), PROJ from 7.2:
\*     0, 111325.1428663851, 222684.20850554405, 334111.1714019596,
\*     445640.10965602624
EPSG3857_y(formula) ==
    IF formula = "log_tan"
    THEN <<<<-1, <<0, 0, 21145, 194>>, -83>>,
          <<1, <<17195, 4700, 14153, 217>>, -36>>,
          <<1, <<29815, 22025, 15238, 217>>, -35>>,
          <<1, <<32462, 24327, 4594, 163>>, -34>>,
          <<1, <<11104, 24723, 19585, 217>>, -34>>>>
    ELSE <<Zero,
          <<1, <<17211, 4700, 14153, 217>>, -36>>,
          <<1, <<29798, 22025, 15238, 217>>, -35>>,
          <<1, <<32460, 24327, 4594, 163>>, -34>>,
          <<1, <<11098, 24723, 19585, 217>>, -34>>>>

\* transform(proj.transform, poly): the ring with every vertex projected.
transform(poly, formula) ==
    [i \in 1..Len(poly) |->
        <<EPSG3857_x[poly[i][1] + 1], EPSG3857_y(formula)[poly[i][2] + 1]>>]

RECURSIVE ofRingSigned(_, _, _)
\* The signed planar area of a ring as GEOS adds it up: half the sum over
\* the vertices i of (x_i - x_1) * (y_i-1 - y_i+1).
ofRingSigned(ring, i, total) ==
    IF i > Len(ring) - 1 THEN FDiv(total, 2)
    ELSE ofRingSigned(ring, i + 1,
             FAdd(total, FMul(FSub(ring[i][1], ring[1][1]),
                            FSub(ring[i - 1][2], ring[i + 1][2]))))

\* poly_proj.area: the absolute value of the signed area of the shell.
area(ring) ==
    LET a == ofRingSigned(ring, 2, Zero) IN <<Abs(a[1]), a[2], a[3]>>

\* The area of the request polygon in hectares: projected, measured in the
\* plane, and divided by 10000.
polygon_area_ha(geojson_polygon, formula) ==
    FDiv(area(transform(shape(geojson_polygon), formula)), 10000)

\* ------------------------------------------------------------ premium

base_rate == 100

peril_weights ==
    [k \in Perils |->
        CASE k = "drought" -> F(3, 10)
          [] k = "flood" -> F(25, 100)
          [] k = "hail" -> F(15, 100)
          [] k = "frost" -> F(15, 100)
          [] k = "pestilence" -> F(15, 100)]

\* coverage = req.coverage or 1.0
effective_coverage(c) == Or(c, Float(1))

\* {k: round(base_rate * v * area_ha * coverage * peril_weights[k], 2)}
premiums(p, a, cov) ==
    [k \in Perils |->
        round(FMul(FMul(FMul(FMul(Float(base_rate), p[k]), a), cov),
                   peril_weights[k]), 2)]

\* premium = round(sum(peril_premiums.values()), 2); the line items are
\* floats, all of them.
total_premium(pp, impl) == round(sum_values(pp, {}, impl), 2)

\* ------------------------------------------------------ state machine

VARIABLES
    pc,              \* position of the /risk handler, or of a single call
    build,           \* the libraries the request runs on
    req,             \* the request: [polygon, coverage]
    call,            \* the get_*_stats call that returned last:
                     \*   [dataset, rows, path], or NoCall
    df,              \* the table read by a call checked on its own
    ndvi, elevation, weather,          \* the three aggregates
    perils, risk_score,                \* the scorer's results
    area_ha, coverage,                 \* premium inputs as used
    peril_premiums, premium            \* the premium results

vars == <<pc, build, req, call, df, ndvi, elevation, weather, perils, risk_score,
          area_ha, coverage, peril_premiums, premium>>

NoScores == [k \in Perils |-> None]

NoCall == [dataset |-> "none", rows |-> 0, path |-> "none"]

NoResults ==
    /\ call = NoCall /\ df = None
    /\ ndvi = None /\ elevation = None /\ weather = None
    /\ perils = NoScores /\ risk_score = None
    /\ area_ha = None /\ coverage = None
    /\ peril_premiums = NoScores /\ premium = None

\* A request has arrived at POST /risk.
Init ==
    /\ pc = "start"
    /\ build \in Builds
    /\ req \in [polygon : Polygons, coverage : Coverages]
    /\ NoResults

Returned(name, t, ret) ==
    [dataset |-> name, rows |-> Len(t), path |-> ret.path]

\* ndvi = get_ndvi_stats(req.polygon), reading the table t; an exception
\* raised by the call ends the handler.
NdviCall(t, after) ==
    \E ret \in {get_ndvi_stats(req.polygon, t)} :
        /\ call' = Returned("ndvi", t, ret)
        /\ ndvi' = ret.value
        /\ pc' = IF ret.path = "raise" THEN "error" ELSE after
        /\ UNCHANGED <<build, req, elevation, weather, perils, risk_score, area_ha,
                       coverage, peril_premiums, premium>>

\* elevation = get_elevation_stats(req.polygon)
ElevationCall(t, after) ==
    \E ret \in {get_elevation_stats(req.polygon, t)} :
        /\ call' = Returned("elevation", t, ret)
        /\ elevation' = ret.value
        /\ pc' = IF ret.path = "raise" THEN "error" ELSE after
        /\ UNCHANGED <<build, req, ndvi, weather, perils, risk_score, area_ha,
                       coverage, peril_premiums, premium>>

\* weather = get_weather_stats(req.polygon)
WeatherCall(t, after) ==
    \E ret \in {get_weather_stats(req.polygon, t)} :
        /\ call' = Returned("weather", t, ret)
        /\ weather' = ret.value
        /\ pc' = IF ret.path = "raise" THEN "error" ELSE after
        /\ UNCHANGED <<build, req, ndvi, elevation, perils, risk_score, area_ha,
                       coverage, peril_premiums, premium>>

GetNdviStats ==
    /\ pc = "start"
    /\ \E t \in Tables(NdviVals, MaxRows) : NdviCall(t, "ndvi")
    /\ UNCHANGED df

GetElevationStats ==
    /\ pc = "ndvi"
    /\ \E t \in Tables(ElevationVals, MaxRows) : ElevationCall(t, "elevation")
    /\ UNCHANGED df

GetWeatherStats ==
    /\ pc = "elevation"
    /\ \E t \in Tables(WeatherVals, MaxRows) : WeatherCall(t, "weather")
    /\ UNCHANGED df

\* The five peril scores and the overall risk score.
ScorePerils ==
    /\ pc = "weather"
    /\ perils' = score_perils(ndvi, elevation, weather)
    /\ risk_score' = round(overall_risk(perils', int_scores(ndvi, elevation, weather),
                                         build.sum), 3)
    /\ pc' = "scored"
    /\ UNCHANGED <<build, req, call, df, ndvi, elevation, weather, area_ha, coverage,
                   peril_premiums, premium>>

\* The premium breakdown and the response.
ComputePremium ==
    /\ pc = "scored"
    /\ area_ha' = polygon_area_ha(req.polygon, build.mercator)
    /\ coverage' = effective_coverage(req.coverage)
    /\ peril_premiums' = premiums(perils, area_ha', coverage')
    /\ premium' = total_premium(peril_premiums', build.sum)
    /\ pc' = "done"
    /\ UNCHANGED <<build, req, call, df, ndvi, elevation, weather, perils, risk_score>>

Next ==
    \/ GetNdviStats
    \/ GetElevationStats
    \/ GetWeatherStats
    \/ ScorePerils
    \/ ComputePremium

\* The /risk handler, from the request to the response or an exception.
Spec == Init /\ [][Next]_vars

\* ------------------------------------- one aggregation call on its own
\* Each get_*_stats is a function of the polygon and of the table it reads.
\* Here one call is made on an enumerated polygon and table, and the table
\* is kept in df beside the result.  (The unclosed square is left to the
\* handler's specification: once shape() has closed it, it is the square.
\* The calls use neither sum() nor PROJ, so one build stands for all.)

InitCall ==
    /\ pc = "call"
    /\ build = [sum |-> "plain", mercator |-> "asinh"]
    /\ req \in [polygon : {Square, LShape}, coverage : {None}]
    /\ NoResults

AggregateNdvi ==
    /\ pc = "call"
    /\ \E t \in Tables(NdviVals, MaxSamples) : NdviCall(t, "returned") /\ df' = t

AggregateElevation ==
    /\ pc = "call"
    /\ \E t \in Tables(ElevationVals, MaxSamples) : ElevationCall(t, "returned") /\ df' = t

AggregateWeather ==
    /\ pc = "call"
    /\ \E t \in Tables(WeatherVals, MaxSamples) : WeatherCall(t, "returned") /\ df' = t

NextCall ==
    \/ AggregateNdvi
    \/ AggregateElevation
    \/ AggregateWeather

SpecCall == InitCall /\ [][NextCall]_vars

\* ========================================================== properties

\* ---- of one aggregation call (SpecCall)

Poly == shape(req.polygon)

\* The aggregate the call returned.
Result ==
    CASE call.dataset = "ndvi" -> ndvi
      [] call.dataset = "elevation" -> elevation
      [] call.dataset = "weather" -> weather
      [] OTHER -> None

Indices == 1..Len(df)

FirstOf(S) == CHOOSE i \in S : \A j \in S : i <= j

RECURSIVE SumOver(_, _)
\* acc plus the values of the rows of df with index in S, in table order.
SumOver(acc, S) ==
    IF S = {} THEN acc
    ELSE LET i == FirstOf(S)
         IN  SumOver(FAdd(acc, df[i].value), S \ {i})

\* Result is the arithmetic mean of the values of the rows in S: their sum
\* divided by their number.
IsMeanOf(S) == S # {} /\ Result = FDiv(SumOver(Zero, S), Cardinality(S))

\* The rows the polygon contains.
Inside == {i \in Indices : contains(Poly, Point(df[i]))}

\* The rows on the polygon's boundary, and those in its open interior.
OnEdge == {i \in Indices : OnBoundary(Poly, Point(df[i]))}
Interior == {i \in Indices : OddCrossings(Poly, Point(df[i]))} \ OnEdge

\* C2: when the polygon contains at least one sample of the table, the
\* aggregate is the arithmetic mean of the values of exactly the contained
\* samples, and the nearest-neighbour fallback is not taken.
C2_MeanOfContained ==
    (pc = "returned" /\ Inside # {}) =>
        /\ call.path = "mean"
        /\ IsMeanOf(Inside)

\* Two contained samples of different value and one sample outside: the
\* aggregate is the mean of the two.
C2_Witness ==
    /\ pc = "returned"
    /\ Cardinality(Inside) = 2
    /\ Len(df) = 3
    /\ \E i, j \in Inside : df[i].value # df[j].value
    /\ \E k \in Indices \ Inside : df[k].value # Result
    /\ call.path = "mean"
    /\ IsMeanOf(Inside)

\* Exact rationals <<n, d>>, for the centroid and the distances as the
\* claim states them.
RECURSIVE GCD(_, _)
GCD(a, b) == IF b = 0 THEN a ELSE GCD(b, a % b)

\* The rational n/d in lowest terms with a positive denominator.
R(n, d) ==
    LET s == IF d < 0 THEN -1 ELSE 1
        g == GCD(Abs(n), Abs(d))
    IN  <<(s * n) \div g, (s * d) \div g>>

I(n) == <<n, 1>>

RAdd(a, b) == R(a[1] * b[2] + b[1] * a[2], a[2] * b[2])
RSub(a, b) == R(a[1] * b[2] - b[1] * a[2], a[2] * b[2])
RMul(a, b) == R(a[1] * b[1], a[2] * b[2])
RLt(a, b) == a[1] * b[2] < b[1] * a[2]
RLe(a, b) == a[1] * b[2] <= b[1] * a[2]

\* Twice the signed area of the ring (shoelace).
Area2(poly) ==
    SumTo([i \in 1..(Len(poly) - 1) |->
              poly[i][1] * poly[i + 1][2] - poly[i + 1][1] * poly[i][2]],
          Len(poly) - 1)

\* The area-weighted centroid of the ring, exactly:
\*   c = sum_i (v_i + v_i+1) * cross_i / (3 * Area2).
AreaCentroid(poly) ==
    LET n == Len(poly) - 1
        w == [i \in 1..n |->
                 poly[i][1] * poly[i + 1][2] - poly[i + 1][1] * poly[i][2]]
    IN  <<R(SumTo([i \in 1..n |-> (poly[i][1] + poly[i + 1][1]) * w[i]], n),
            3 * Area2(poly)),
          R(SumTo([i \in 1..n |-> (poly[i][2] + poly[i + 1][2]) * w[i]], n),
            3 * Area2(poly))>>

\* The square of the Euclidean distance of each row from the centroid,
\* exactly (the order and the ties of the distances are those of their
\* squares).
Dist2 ==
    LET c == AreaCentroid(Poly)
    IN  [i \in Indices |->
            LET dx == RSub(c[1], I(df[i].lon))
                dy == RSub(c[2], I(df[i].lat))
            IN  RAdd(RMul(dx, dx), RMul(dy, dy))]

\* The rows at minimum distance from the centroid.
Nearest ==
    LET d == Dist2
    IN  {i \in Indices : \A j \in Indices : RLe(d[i], d[j])}

\* C3: when the polygon contains no sample of a non-empty table, the
\* aggregate is the value of the sample nearest to the polygon's
\* area-weighted centroid, the first in table order among equally near ones.
C3_NearestFirst ==
    (pc = "returned" /\ Inside = {}) =>
        /\ call.path = "nearest"
        /\ Result = df[FirstOf(Nearest)].value

\* C4 as claimed: a sample on the polygon's boundary counts as contained,
\* so it is averaged and keeps the call off the fallback.
C4_BoundaryContained ==
    (pc = "returned" /\ Interior \cup OnEdge # {}) =>
        /\ call.path = "mean"
        /\ IsMeanOf(Interior \cup OnEdge)

\* C4 as amended: a sample on the polygon's boundary is not contained. It
\* is left out of the average of the interior samples, and a table whose
\* samples touch the polygon only on its boundary takes the fallback.
C4_BoundaryExcluded ==
    (pc = "returned" /\ OnEdge # {}) =>
        IF Interior = {}
        THEN call.path = "nearest"
        ELSE call.path = "mean" /\ IsMeanOf(Interior)

\* A boundary sample beside an interior one is left out of the mean.
C4_Witness ==
    /\ pc = "returned"
    /\ OnEdge # {}
    /\ Interior # {}
    /\ call.path = "mean"
    /\ IsMeanOf(Interior)
    /\ ~IsMeanOf(Interior \cup OnEdge)

\* ---- of the /risk handler (Spec)

Aggregate(dataset) ==
    CASE dataset = "ndvi" -> ndvi
      [] dataset = "elevation" -> elevation
      [] dataset = "weather" -> weather
      [] OTHER -> None

\* C5: a call that reads an empty table ends in an error and returns no
\* value, and a request ended by the error has no peril score and no premium.
C5_EmptyTableRaises ==
    /\ (call # NoCall /\ call.rows = 0) =>
          /\ pc = "error"
          /\ call.path = "raise"
          /\ Aggregate(call.dataset) = None
    /\ pc = "error" =>
          /\ perils = NoScores /\ risk_score = None
          /\ peril_premiums = NoScores /\ premium = None

\* The weather table is empty after two aggregates were computed.
C5_Witness ==
    /\ pc = "error"
    /\ call.dataset = "weather" /\ call.rows = 0
    /\ ndvi # None /\ elevation # None /\ weather = None
    /\ perils = NoScores /\ premium = None

\* A ring is closed when its last vertex repeats the first.
Closed(ring) == ring[1] = ring[Len(ring)]

\* C6: a malformed polygon (here: an unclosed ring) is rejected before any
\* aggregation runs, so no aggregate, score or premium comes from it.
C6_MalformedRejected ==
    ~Closed(req.polygon) =>
        /\ pc \in {"start", "error"}
        /\ ndvi = None /\ elevation = None /\ weather = None
        /\ perils = NoScores /\ premium = None

\* C1: every reported peril score lies in [0, 1].
C1_ScoresInUnitInterval ==
    pc \in {"scored", "done"} =>
        \A k \in Perils : FLe(Zero, perils[k]) /\ FLe(perils[k], Float(1))

\* The coverage value the caller supplied, 1.0 standing for none supplied.
SuppliedCoverage == IF req.coverage = None THEN Float(1) ELSE req.coverage

\* A signed integer <<s, m>> of any size, and the sum of two.
SAdd(a, b) ==
    IF a[1] = 0 THEN b
    ELSE IF b[1] = 0 THEN a
    ELSE IF a[1] = b[1] THEN <<a[1], BAdd(a[2], b[2])>>
    ELSE LET c == BCmp(a[2], b[2])
         IN  IF c = 0 THEN <<0, <<>>>>
             ELSE IF c > 0 THEN <<a[1], BSub(a[2], b[2])>>
             ELSE <<b[1], BSub(b[2], a[2])>>

\* An amount in whole cents.
Cents(x) ==
    LET m == Scaled(x, 2) IN IF m = <<>> THEN <<0, <<>>>> ELSE <<x[1], m>>

\* The five line items added up exactly, in cents.
ItemCents ==
    SAdd(SAdd(SAdd(SAdd(Cents(peril_premiums["drought"]),
                        Cents(peril_premiums["flood"])),
                   Cents(peril_premiums["hail"])),
              Cents(peril_premiums["frost"])),
         Cents(peril_premiums["pestilence"]))

\* C7: each line item is base_rate * score * area_ha * coverage * weight
\* rounded to 2 decimals, and the total is the sum of the rounded items.
C7_PremiumFormula ==
    pc = "done" =>
        /\ \A k \in Perils :
              peril_premiums[k] =
                  round(FMul(FMul(FMul(FMul(Float(100), perils[k]), area_ha),
                                  SuppliedCoverage), peril_weights[k]), 2)
        /\ premium = FromRatio(ItemCents[1], ItemCents[2], 100)

\* C8: with area_ha >= 0 and coverage >= 0 every line item and the total
\* are >= 0, and all are 0 when area_ha = 0.
C8_PremiumsNonNegative ==
    pc = "done" =>
        /\ \A k \in Perils : FLe(Zero, peril_premiums[k])
        /\ FLe(Zero, premium)
        /\ area_ha = Zero =>
              /\ \A k \in Perils : peril_premiums[k] = Zero
              /\ premium = Zero

\* C9: the coverage used and reported is the supplied value whenever one
\* is supplied, and 1.0 only when none is.
C9_CoverageAsSupplied ==
    pc = "done" => coverage = SuppliedCoverage

\* The peril formulas applied to the aggregates as received.
ScoresAsReceived(n, e, w) ==
    [k \in Perils |->
        CASE k = "drought" ->
                round(max(Zero, FSub(Float(1), FAdd(n, FDiv(w, 20)))), 3)
          [] k = "flood" ->
                round(max(Zero, FAdd(FSub(Float(1), FDiv(e, 2000)), FDiv(w, 20))), 3)
          [] k = "hail" ->
                round(min(Float(1), FAdd(FMul(FDiv(e, 2000), F(7, 10)), F(2, 10))), 3)
          [] k = "frost" ->
                round(min(Float(1), FAdd(FMul(FDiv(e, 2000), F(5, 10)),
                                         FMul(FSub(Float(1), n), F(5, 10)))), 3)
          [] k = "pestilence" -> round(min(Float(1), FMul(n, F(8, 10))), 3)]

\* C10: the scores are the formulas applied to the aggregates received; an
\* aggregate of 0 is used as 0, not replaced by a neutral default.
C10_ZeroIsNotMissing ==
    pc \in {"scored", "done"} =>
        perils = ScoresAsReceived(ndvi, elevation, weather)

====
